---------------------------- MODULE Spec2Model ----------------------------
(***************************************************************************)
(* YamlNav: the indentation-based path builder (get_yaml_symbols) and the  *)
(* cursor-to-symbol resolver (get_selected_yaml_symbol) of                 *)
(* src/lib/yaml_math.py.                                                   *)
(*                                                                         *)
(* Text is a sequence of one-character strings.  Offsets are 0-based as in *)
(* Python and in the editor API: offset k names the character s[k+1] of    *)
(* the TLA+ sequence s.  A region is a record [a, b] of two offsets; its   *)
(* begin is the smaller and its end the larger of the two.                 *)
(***************************************************************************)
EXTENDS Integers, Sequences, FiniteSets, TLC

VARIABLES
    content,        \* the buffer text, view.substr(Region(0, view.size()))
    regions,        \* the key tokens, view.find_by_selector(...)
    pc,             \* position of the running function
    n,              \* get_yaml_symbols: number of tokens the loop has consumed
    current_path,   \* get_yaml_symbols: the stack of Level frames
    symbols,        \* the list of Symbol built by get_yaml_symbols
    sel,            \* the selection set, view.sel()
    probe,          \* get_selected_yaml_symbol: probe regions consumed so far
    yaml_symbols,   \* get_selected_yaml_symbol: items taken from reversed(symbols)
    selected,       \* get_selected_yaml_symbol: the value returned
    calls,          \* number of get_yaml_symbols calls that have returned
    results,        \* the (input, output) pairs of the calls that returned
    loading,        \* view.is_loading()
    change_count,   \* view.change_count()
    pending_modified,   \* on_modified_async events not yet delivered
    pending_selection,  \* an on_selection_modified_async event is due
    timers,         \* change counts captured by the scheduled callbacks
    lpc,            \* position of the listener callback that is running
    self_yaml_symbols,  \* YamlNavListener.yaml_symbols
    current_yaml_symbol,    \* YamlNavListener.current_yaml_symbol
    status,         \* the view's status-bar field STATUS_BAR_ID
    indexed,        \* the text self_yaml_symbols was built from
    fired,          \* what the last scheduled callback did
    panel,          \* the names shown by the open quick panel, or None
    jump,           \* what the last quick-panel callback did
    clipboard       \* the clipboard

buildVars == <<n, current_path>>
resolveVars == <<sel, probe, yaml_symbols, selected>>
callVars == <<calls, results>>
listenerVars == <<loading, change_count, pending_modified, pending_selection,
                  timers, lpc, self_yaml_symbols, current_yaml_symbol,
                  status, indexed, fired>>
commandVars == <<panel, jump, clipboard>>

vars == <<content, regions, pc, symbols, buildVars, resolveVars,
          callVars, listenerVars, commandVars>>

----------------------------------------------------------------------------
(* Bounds of the explored inputs.                                          *)

MaxLines == 3       \* lines of a generated document
MaxIndent == 2      \* deepest column at which a key token begins
MaxSize == 3        \* characters of a document given to the resolver
MaxTokens == 2      \* tokens of a document given to the resolver
MaxCalls == 3       \* calls of get_yaml_symbols in a row
MaxEdits == 2       \* modifications of the buffer

Keys == {<<"a">>, <<"b">>, <<"c">>}
Pads == {0, 1}

None == [none |-> TRUE]

\* the values of the variables a specification does not use
NoCalls == calls = 0 /\ results = {}

NoListener ==
    /\ loading = FALSE
    /\ change_count = 0
    /\ pending_modified = 0
    /\ pending_selection = FALSE
    /\ timers = <<>>
    /\ lpc = "idle"
    /\ self_yaml_symbols = <<>>
    /\ current_yaml_symbol = None
    /\ status = None
    /\ indexed = <<>>
    /\ fired = None

NoCommands ==
    /\ panel = None
    /\ jump = None
    /\ clipboard = None

----------------------------------------------------------------------------
(* Python and editor primitives used by the two functions.                 *)

Min(x, y) == IF x <= y THEN x ELSE y
Max(x, y) == IF x >= y THEN x ELSE y

Region(a, b) == [a |-> a, b |-> b]
Begin(r) == Min(r.a, r.b)
End(r) == Max(r.a, r.b)

Level(key, indent) == [key |-> key, indent |-> indent]
Symbol(name, region) == [name |-> name, region |-> region]

\* content[b:e]
Slice(s, b, e) == SubSeq(s, b + 1, e)

Whitespace == {" ", "\n", "\t"}

RECURSIVE lstrip(_)
lstrip(s) ==
    IF Len(s) > 0 /\ Head(s) \in Whitespace THEN lstrip(Tail(s)) ELSE s

RECURSIVE rstrip(_)
rstrip(s) ==
    IF Len(s) > 0 /\ s[Len(s)] \in Whitespace
    THEN rstrip(SubSeq(s, 1, Len(s) - 1))
    ELSE s

\* str.strip()
strip(s) == rstrip(lstrip(s))

\* s.rfind(ch, start, end): the highest offset k in start..end-1 with
\* s[k] = ch, or -1.
rfind(s, ch, start, end) ==
    LET hits == {k \in start..(Min(end, Len(s)) - 1) : s[k + 1] = ch}
    IN  IF hits = {} THEN -1
        ELSE CHOOSE k \in hits : \A j \in hits : j <= k

\* sep.join(items)
RECURSIVE join(_, _)
join(sep, items) ==
    IF Len(items) = 0 THEN <<>>
    ELSE IF Len(items) = 1 THEN items[1]
    ELSE items[1] \o sep \o join(sep, Tail(items))

----------------------------------------------------------------------------
(* get_yaml_symbols, src/lib/yaml_math.py lines 24-59.                     *)

\* line 45
key_of(text, region) == strip(Slice(text, Begin(region), End(region)))

\* the column counted without the final "- 1"
indent_level_of_plus_one(text, region) ==
    Begin(region) - rfind(text, "\n", 0, Begin(region))

\* line 48
indent_level_of(text, region) ==
    Begin(region) - rfind(text, "\n", 0, Begin(region)) - 1

\* the pop loop with ">" for ">=": equal indentation nests
RECURSIVE pop_levels_strict(_, _)
pop_levels_strict(path, indent_level) ==
    IF Len(path) > 0 /\ path[Len(path)].indent > indent_level
    THEN pop_levels_strict(SubSeq(path, 1, Len(path) - 1), indent_level)
    ELSE path

\* the pop loop with "<=" for ">=": deeper tokens pop their ancestors
RECURSIVE pop_levels_inverted(_, _)
pop_levels_inverted(path, indent_level) ==
    IF Len(path) > 0 /\ path[Len(path)].indent <= indent_level
    THEN pop_levels_inverted(SubSeq(path, 1, Len(path) - 1), indent_level)
    ELSE path

\* the pop loop with "if" for "while": at most one frame is popped
pop_levels_once(path, indent_level) ==
    IF Len(path) > 0 /\ path[Len(path)].indent >= indent_level
    THEN SubSeq(path, 1, Len(path) - 1)
    ELSE path

\* lines 51-52
RECURSIVE pop_levels(_, _)
pop_levels(path, indent_level) ==
    IF Len(path) > 0 /\ path[Len(path)].indent >= indent_level
    THEN pop_levels(SubSeq(path, 1, Len(path) - 1), indent_level)
    ELSE path

\* lines 50-54: the stack after one token
push_token(path, text, region) ==
    Append(pop_levels(path, indent_level_of(text, region)),
           Level(key_of(text, region), indent_level_of(text, region)))

\* line 56
symbol_name(path) == join(<<".">>, [k \in 1..Len(path) |-> path[k].key])

\* the append skipped for a token that opens a new root path
\* the region recorded in units twice as wide as the text's offsets
append_symbol_wide_offsets(out, path, region) ==
    Append(out, [name |-> join(<<".">>, [k \in 1..Len(path) |-> path[k].key]),
                 region |-> Region(2 * region.a, 2 * region.b)])

append_symbol_nested_only(out, path, region) ==
    IF Len(path) = 1 /\ Len(out) > 0 THEN out
    ELSE Append(out, [name |-> join(<<".">>, [k \in 1..Len(path) |-> path[k].key]),
                      region |-> region])

\* line 57
append_symbol(out, path, region) ==
    Append(out, Symbol(symbol_name(path), region))

\* lines 41-59: the loop run over the tokens regs[k..], from stack `path`
\* and output list `out`
RECURSIVE scan_tokens(_, _, _, _, _)
scan_tokens(text, regs, k, path, out) ==
    IF k > Len(regs) THEN out
    ELSE LET pushed == push_token(path, text, regs[k])
         IN  scan_tokens(text, regs, k + 1, pushed,
                         append_symbol(out, pushed, regs[k]))

get_yaml_symbols(text, regs) == scan_tokens(text, regs, 1, <<>>, <<>>)

----------------------------------------------------------------------------
(* Documents given to get_yaml_symbols: block mappings, one key per line.  *)
(* A line is `indent` spaces, the key token, a colon and a newline; in a   *)
(* document with pad = 1 the raw text of every token carries a blank on    *)
(* either side of the key.                                                 *)

Spaces(k) == [j \in 1..k |-> " "]

LineSpec == [indent : 0..MaxIndent, key : Keys]

Documents ==
    [lines : UNION {[1..k -> LineSpec] : k \in 0..MaxLines}, pad : Pads]

token_text(l, pad) == Spaces(pad) \o l.key \o Spaces(pad)

render_line(l, pad) == Spaces(l.indent) \o token_text(l, pad) \o <<":", "\n">>

RECURSIVE render_lines(_, _)
render_lines(ls, pad) ==
    IF Len(ls) = 0 THEN <<>>
    ELSE render_line(ls[1], pad) \o render_lines(Tail(ls), pad)

render(d) == render_lines(d.lines, d.pad)

\* the regions view.find_by_selector reports for the document, in document
\* order: for each line, the token starting at its column `indent`
find_by_selector(d) ==
    [k \in 1..Len(d.lines) |->
        LET start == Len(render_lines(SubSeq(d.lines, 1, k - 1), d.pad))
                         + d.lines[k].indent
        IN  Region(start, start + Len(token_text(d.lines[k], d.pad)))]

----------------------------------------------------------------------------
(* The path builder, one loop iteration per step.                          *)

InitBuild ==
    /\ \E d \in Documents :
          /\ content = render(d)
          /\ regions = find_by_selector(d)
    /\ pc = "loop"
    /\ n = 0
    /\ current_path = <<>>
    /\ symbols = <<>>
    /\ sel = <<>>
    /\ probe = 0
    /\ yaml_symbols = 0
    /\ selected = None
    /\ NoCalls
    /\ NoListener
    /\ NoCommands

\* lines 44-57: one iteration of `for region in regions`
NextToken ==
    /\ pc = "loop"
    /\ n < Len(regions)
    /\ LET region == regions[n + 1]
           pushed == push_token(current_path, content, region)
       IN  /\ current_path' = pushed
           /\ symbols' = append_symbol(symbols, pushed, region)
    /\ n' = n + 1
    /\ UNCHANGED <<content, regions, pc, resolveVars, callVars, listenerVars,
                 commandVars>>

\* line 59
ReturnSymbols ==
    /\ pc = "loop"
    /\ n = Len(regions)
    /\ pc' = "returned"
    /\ UNCHANGED <<content, regions, n, current_path, symbols, resolveVars, callVars, listenerVars,
                 commandVars>>

NextBuild == NextToken \/ ReturnSymbols

SpecBuild == InitBuild /\ [][NextBuild]_vars

----------------------------------------------------------------------------
(* Editor primitives used by get_selected_yaml_symbol.                     *)

\* sublime.Region.intersects
intersects(lhs, rhs) ==
    LET lb == Begin(lhs)
        le == End(lhs)
        rb == Begin(rhs)
        re == End(rhs)
    IN  \/ (lb = rb /\ le = re)
        \/ (rb > lb /\ rb < le)
        \/ (re > lb /\ re < le)
        \/ (lb > rb /\ lb < re)
        \/ (le > rb /\ le < re)

clamp(text, pt) == Max(0, Min(pt, Len(text)))

\* view.line(pt): the line holding offset pt, without its newline
line_at(text, pt) ==
    LET p == clamp(text, pt)
        breaks == {k \in p..(Len(text) - 1) : text[k + 1] = "\n"}
        stop == IF breaks = {} THEN Len(text)
                ELSE CHOOSE k \in breaks : \A j \in breaks : k <= j
    IN  Region(rfind(text, "\n", 0, p) + 1, stop)

\* view.lines(region): the lines the region touches, in document order
RECURSIVE lines_from(_, _, _)
lines_from(text, pt, stop) ==
    LET line == line_at(text, pt)
    IN  IF End(line) + 1 <= stop
        THEN <<line>> \o lines_from(text, End(line) + 1, stop)
        ELSE <<line>>

lines(text, region) ==
    lines_from(text, clamp(text, Begin(region)), clamp(text, End(region)))

RECURSIVE flatten(_)
flatten(ss) == IF Len(ss) = 0 THEN <<>> ELSE ss[1] \o flatten(Tail(ss))

----------------------------------------------------------------------------
(* get_selected_yaml_symbol, src/lib/yaml_math.py lines 62-91.             *)

\* lines 83-91: the probe regions in the order the generator yields them
iter_regions(text, sels) ==
    [k \in 1..Len(sels) |-> Region(sels[k].b, sels[k].b)]
        \o [k \in 1..Len(sels) |-> sels[k]]
        \o flatten([k \in 1..Len(sels) |-> lines(text, sels[k])])

\* the guard with "no cursor" for "not exactly one cursor"
early_return_no_cursor(syms, sels) == Len(syms) = 0 \/ Len(sels) = 0

\* the guard without the empty-list test
early_return_cursors_only(syms, sels) == Len(sels) # 1

\* lines 65-70: the two early returns
early_return(syms, sels) == Len(syms) = 0 \/ Len(sels) # 1

\* the k-th item of reversed(syms)
reversed_item(syms, k) == syms[Len(syms) - k + 1]

\* the inner loop over the list in forward order
scan_forward(syms, taken, region) ==
    LET hits == {k \in (taken + 1)..Len(syms) : intersects(region, syms[k].region)}
    IN  IF hits = {} THEN [symbol |-> None, taken |-> Len(syms)]
        ELSE LET k == CHOOSE j \in hits : \A i \in hits : j <= i
             IN  [symbol |-> syms[k], taken |-> k]

\* the inner loop over a fresh reversed copy of the list for every probe
scan_restarted(syms, taken, region) ==
    LET hits == {k \in 1..Len(syms) :
                    intersects(region, syms[Len(syms) - k + 1].region)}
    IN  IF hits = {} THEN [symbol |-> None, taken |-> Len(syms)]
        ELSE LET k == CHOOSE j \in hits : \A i \in hits : j <= i
             IN  [symbol |-> syms[Len(syms) - k + 1], taken |-> k]

\* lines 76-78: `for symbol in yaml_symbols`, run on the one iterator made
\* at line 73, of which `taken` items have been consumed: the first item
\* still to come that intersects the probe is returned; with none, the
\* iterator is left exhausted
scan(syms, taken, region) ==
    LET hits == {k \in (taken + 1)..Len(syms) :
                    intersects(region, reversed_item(syms, k).region)}
    IN  IF hits = {} THEN [symbol |-> None, taken |-> Len(syms)]
        ELSE LET k == CHOOSE j \in hits : \A i \in hits : j <= i
             IN  [symbol |-> reversed_item(syms, k), taken |-> k]

----------------------------------------------------------------------------
(* Inputs of the resolver: a short buffer, non-empty key tokens in         *)
(* ascending begin order that may overlap, and a cursor state whose        *)
(* offsets may lie one past the end of the buffer.                         *)

Texts == UNION {[1..k -> {"k", "\n"}] : k \in 0..MaxSize}

Spans(size) == {Region(a, b) : a \in 0..size, b \in 0..size}

TokenLists(size) ==
    LET toks == {r \in Spans(size) : r.a < r.b}
    IN  {ts \in UNION {[1..k -> toks] : k \in 0..MaxTokens} :
            \A k \in 1..(Len(ts) - 1) : ts[k].a < ts[k + 1].a}

\* view.sel(): no selection, one selection of either direction, or two
\* carets
CursorStates(size) ==
    {<<>>}
        \cup {<<s>> : s \in Spans(size + 1)}
        \cup {<<Region(pq[1], pq[1]), Region(pq[2], pq[2])>> :
                 pq \in {x \in (0..(size + 1)) \X (0..(size + 1)) : x[1] < x[2]}}

InitResolve ==
    /\ content \in Texts
    /\ regions \in TokenLists(Len(content))
    /\ pc = "scan"
    /\ n = 0
    /\ current_path = <<>>
    /\ symbols = <<>>
    /\ sel = <<>>
    /\ probe = 0
    /\ yaml_symbols = 0
    /\ selected = None
    /\ NoCalls
    /\ NoListener
    /\ NoCommands

\* the caller's rescan: symbols = get_yaml_symbols(view)
Rescan ==
    /\ pc = "scan"
    /\ symbols' = get_yaml_symbols(content, regions)
    /\ pc' = "call"
    /\ UNCHANGED <<content, regions, buildVars, resolveVars, callVars, listenerVars,
                 commandVars>>

\* lines 62-73, entered with some cursor state: an early return, or the
\* iterator over reversed(symbols) is made
Enter ==
    /\ pc = "call"
    /\ \E s \in CursorStates(Len(content)) :
          /\ sel' = s
          /\ IF early_return(symbols, s)
             THEN pc' = "resolved"
             ELSE pc' = "probing"
    /\ selected' = None
    /\ yaml_symbols' = 0
    /\ probe' = 0
    /\ UNCHANGED <<content, regions, buildVars, symbols, callVars, listenerVars,
                 commandVars>>

\* lines 75-78: one iteration of `for region in iter_regions(view)`
Probe ==
    /\ pc = "probing"
    /\ LET probes == iter_regions(content, sel)
           found == scan(symbols, yaml_symbols, probes[probe + 1])
       IN  /\ probe < Len(probes)
           /\ yaml_symbols' = found.taken
           /\ selected' = found.symbol
           /\ pc' = IF found.symbol = None THEN "probing" ELSE "resolved"
    /\ probe' = probe + 1
    /\ UNCHANGED <<content, regions, buildVars, symbols, sel, callVars, listenerVars,
                 commandVars>>

\* line 80
ReturnNone ==
    /\ pc = "probing"
    /\ probe = Len(iter_regions(content, sel))
    /\ selected' = None
    /\ pc' = "resolved"
    /\ UNCHANGED <<content, regions, buildVars, symbols, sel, probe, yaml_symbols, callVars, listenerVars,
                 commandVars>>

NextResolve == Rescan \/ Enter \/ Probe \/ ReturnNone

SpecResolve == InitResolve /\ [][NextResolve]_vars

----------------------------------------------------------------------------
(* The path builder on token lists that break the caller's contract:       *)
(* tokens in any order, overlapping, empty, or sharing a begin offset.     *)

AnyTokenLists(size) ==
    LET toks == {r \in Spans(size) : r.a <= r.b}
    IN  UNION {[1..k -> toks] : k \in 0..MaxTokens}

InitMalformed ==
    /\ content \in Texts
    /\ regions \in AnyTokenLists(Len(content))
    /\ pc = "loop"
    /\ n = 0
    /\ current_path = <<>>
    /\ symbols = <<>>
    /\ sel = <<>>
    /\ probe = 0
    /\ yaml_symbols = 0
    /\ selected = None
    /\ NoCalls
    /\ NoListener
    /\ NoCommands

SpecMalformed == InitMalformed /\ [][NextBuild]_vars

----------------------------------------------------------------------------
(* get_yaml_symbols called several times in a row, on documents that may   *)
(* differ from call to call.                                               *)

CallLines == {[indent |-> 0, key |-> <<"a">>], [indent |-> 1, key |-> <<"b">>]}

CallDocuments ==
    [lines : UNION {[1..k -> CallLines] : k \in 0..2}, pad : {0}]

\* the stack of the previous call left in place
kept_path(old) == old

\* line 42: current_path = []
new_path(old) == <<>>

\* line 41: symbols = []
new_symbols(old) == <<>>

InitCalls ==
    /\ content = <<>>
    /\ regions = <<>>
    /\ pc = "idle"
    /\ n = 0
    /\ current_path = <<>>
    /\ symbols = <<>>
    /\ sel = <<>>
    /\ probe = 0
    /\ yaml_symbols = 0
    /\ selected = None
    /\ NoCalls
    /\ NoListener
    /\ NoCommands

\* lines 24-42: the function is entered with some view
Call ==
    /\ pc \in {"idle", "returned"}
    /\ calls < MaxCalls
    /\ \E d \in CallDocuments :
          /\ content' = render(d)
          /\ regions' = find_by_selector(d)
    /\ n' = 0
    /\ current_path' = new_path(current_path)
    /\ symbols' = new_symbols(symbols)
    /\ pc' = "loop"
    /\ UNCHANGED <<resolveVars, callVars, listenerVars, commandVars>>

\* line 59, seen from the caller: the list returned for this input
ReturnToCaller ==
    /\ pc = "loop"
    /\ n = Len(regions)
    /\ pc' = "returned"
    /\ calls' = calls + 1
    /\ results' = results \cup
           {[content |-> content, regions |-> regions, symbols |-> symbols]}
    /\ UNCHANGED <<content, regions, buildVars, symbols, resolveVars,
                   listenerVars, commandVars>>

NextCalls == Call \/ NextToken \/ ReturnToCaller

SpecCalls == InitCalls /\ [][NextCalls]_vars

----------------------------------------------------------------------------
(* get_selected_yaml_symbol as one function of its arguments.              *)

\* lines 75-80: the probes from the k-th on, `taken` items of the iterator
\* being consumed
RECURSIVE probe_from(_, _, _, _)
probe_from(syms, probes, k, taken) ==
    IF k > Len(probes) THEN None
    ELSE LET found == scan(syms, taken, probes[k])
         IN  IF found.symbol # None THEN found.symbol
             ELSE probe_from(syms, probes, k + 1, found.taken)

\* lines 62-80
get_selected_yaml_symbol(syms, text, sels) ==
    IF early_return(syms, sels) THEN None
    ELSE probe_from(syms, iter_regions(text, sels), 1, 0)

----------------------------------------------------------------------------
(* YamlNavListener, src/yaml_nav.py lines 50-128.  The buffer and the      *)
(* selection change on the editor's main thread; the listener's callbacks  *)
(* run one after the other on its worker thread.                           *)

\* the status field left as it was when there is nothing to show
set_status_keep(old, message) ==
    IF Len(message) > 0 THEN [text |-> message] ELSE old

\* lines 31-37: the field shows "YAML path: " and the message, or is erased
set_status(old, message) ==
    IF Len(message) > 0 THEN [text |-> message] ELSE None

\* a scheduled callback never taken for stale
is_stale_never(captured, count) == FALSE

\* a scheduled callback always taken for stale
is_stale_always(captured, count) == TRUE

\* line 103, for a callback scheduled with a count; the calls made without
\* one (lines 69 and 80) skip the comparison
is_stale(captured, count) == captured # count

\* lines 124-128: the new current symbol and status field
update_current(syms, text, sels, old) ==
    LET current == get_selected_yaml_symbol(syms, text, sels)
    IN  [current |-> current,
         status |-> IF current # None THEN set_status(old, current.name)
                    ELSE set_status(old, <<>>)]

ListenerDocuments ==
    {[lines |-> <<>>, pad |-> 0],
     [lines |-> <<[indent |-> 0, key |-> <<"c">>]>>, pad |-> 0],
     [lines |-> <<[indent |-> 0, key |-> <<"a", "b">>]>>, pad |-> 1],
     [lines |-> <<[indent |-> 0, key |-> <<"a", "b">>],
                  [indent |-> 1, key |-> <<"c", "d">>]>>, pad |-> 0]}

\* view.sel() in the editor: nothing, a caret, the whole buffer selected,
\* or a caret at either end
ListenerCursors(size) ==
    {<<>>, <<Region(0, size)>>, <<Region(0, 0), Region(size, size)>>}
        \cup {<<Region(p, p)>> : p \in 0..size}

InitListener ==
    /\ \E d \in ListenerDocuments :
          /\ content = render(d)
          /\ regions = find_by_selector(d)
    /\ sel = <<Region(0, 0)>>
    /\ loading \in BOOLEAN
    /\ pc = "idle"
    /\ n = 0
    /\ current_path = <<>>
    /\ symbols = <<>>
    /\ probe = 0
    /\ yaml_symbols = 0
    /\ selected = None
    /\ change_count = 0
    /\ pending_modified = 0
    /\ pending_selection = FALSE
    /\ timers = <<>>
    /\ lpc = "idle"
    /\ self_yaml_symbols = <<>>
    /\ current_yaml_symbol = None
    /\ status = None
    /\ indexed = <<>>
    /\ fired = None
    /\ NoCalls
    /\ NoCommands

idleVars == <<pc, symbols, buildVars, probe, yaml_symbols, selected, callVars>>

\* the buffer is modified: the change count grows, the caret moves, and
\* on_modified_async and on_selection_modified_async are queued
Edit ==
    /\ ~loading
    /\ change_count < MaxEdits
    /\ \E d \in ListenerDocuments :
          /\ render(d) # content
          /\ content' = render(d)
          /\ regions' = find_by_selector(d)
          /\ sel' \in ListenerCursors(Len(render(d)))
    /\ change_count' = change_count + 1
    /\ pending_modified' = pending_modified + 1
    /\ pending_selection' = TRUE
    /\ UNCHANGED <<idleVars, loading, timers, lpc, self_yaml_symbols,
                   current_yaml_symbol, status, indexed, fired, commandVars>>

\* the selection is changed by the user
SelectionChange ==
    /\ sel' \in ListenerCursors(Len(content)) \ {sel}
    /\ pending_selection' = TRUE
    /\ UNCHANGED <<content, regions, idleVars, loading, change_count,
                   pending_modified, timers, lpc, self_yaml_symbols,
                   current_yaml_symbol, status, indexed, fired, commandVars>>

\* lines 106-116: the list is rebuilt from the view
Rebuild ==
    /\ self_yaml_symbols' = get_yaml_symbols(content, regions)
    /\ indexed' = content
    /\ lpc' = "updating"

\* lines 121-128
UpdateCurrent ==
    LET new == update_current(self_yaml_symbols, content, sel, status)
    IN  /\ current_yaml_symbol' = new.current
        /\ status' = new.status

\* lines 68-69: the file has been loaded
OnLoadAsync ==
    /\ lpc = "idle"
    /\ loading
    /\ loading' = FALSE
    /\ Rebuild
    /\ UNCHANGED <<content, regions, sel, idleVars, change_count,
                   pending_modified, pending_selection, timers,
                   current_yaml_symbol, status, fired, commandVars>>

\* lines 71-80
OnActivatedAsync ==
    /\ lpc = "idle"
    /\ ~loading
    /\ IF Len(self_yaml_symbols) > 0
       THEN /\ UpdateCurrent
            /\ UNCHANGED <<self_yaml_symbols, indexed, lpc>>
       ELSE /\ Rebuild
            /\ UNCHANGED <<current_yaml_symbol, status>>
    /\ UNCHANGED <<content, regions, sel, idleVars, loading, change_count,
                   pending_modified, pending_selection, timers, fired,
                   commandVars>>

\* lines 82-83 and 94-97: the callback is scheduled with the change count
\* read now
OnModifiedAsync ==
    /\ lpc = "idle"
    /\ pending_modified > 0
    /\ pending_modified' = pending_modified - 1
    /\ timers' = Append(timers, change_count)
    /\ UNCHANGED <<content, regions, sel, idleVars, loading, change_count,
                   pending_selection, lpc, self_yaml_symbols,
                   current_yaml_symbol, status, indexed, fired, commandVars>>

\* lines 85-86
OnSelectionModifiedAsync ==
    /\ lpc = "idle"
    /\ pending_selection
    /\ pending_selection' = FALSE
    /\ UpdateCurrent
    /\ UNCHANGED <<content, regions, sel, idleVars, loading, change_count,
                   pending_modified, timers, lpc, self_yaml_symbols, indexed,
                   fired, commandVars>>

\* lines 99-116: the oldest scheduled callback runs
TimerFire ==
    /\ lpc = "idle"
    /\ Len(timers) > 0
    /\ timers' = Tail(timers)
    /\ fired' = [captured |-> Head(timers), count |-> change_count]
    /\ IF is_stale(Head(timers), change_count)
       THEN UNCHANGED <<self_yaml_symbols, indexed, lpc>>
       ELSE Rebuild
    /\ UNCHANGED <<content, regions, sel, idleVars, loading, change_count,
                   pending_modified, pending_selection, current_yaml_symbol,
                   status, commandVars>>

\* lines 118-119: _update_yaml_symbols ends by updating the current symbol
FinishUpdate ==
    /\ lpc = "updating"
    /\ lpc' = "idle"
    /\ UpdateCurrent
    /\ UNCHANGED <<content, regions, sel, idleVars, loading, change_count,
                   pending_modified, pending_selection, timers,
                   self_yaml_symbols, indexed, fired, commandVars>>

NextListener ==
    \/ Edit
    \/ SelectionChange
    \/ OnLoadAsync
    \/ OnActivatedAsync
    \/ OnModifiedAsync
    \/ OnSelectionModifiedAsync
    \/ TimerFire
    \/ FinishUpdate

SpecListener == InitListener /\ [][NextListener]_vars

\* the steps of OnSelectionModifiedAsync, TimerFire and FinishUpdate, told
\* by the one variable that only they change this way
SelectionHandled ==
    lpc = "idle" /\ pending_selection /\ pending_selection' = FALSE

TimerFired == lpc = "idle" /\ Len(timers) > 0 /\ timers' = Tail(timers)

UpdateFinished == lpc = "updating" /\ lpc' = "idle"

\* the worker thread handles every queued event and runs every scheduled
\* callback (set_timeout_async, line 97), and a callback that has started
\* runs to its end
SpecListenerFair ==
    /\ SpecListener
    /\ SF_vars(OnModifiedAsync)
    /\ SF_pending_selection(SelectionHandled)
    /\ SF_timers(TimerFired)
    /\ WF_lpc(UpdateFinished)

----------------------------------------------------------------------------
(* YamlNavGotoCommand, src/yaml_nav.py lines 133-167.  The command runs on *)
(* the main thread; the quick panel calls back once, later.                *)

\* line 150: the window's status message
NoSymbolsFound ==
    [shown |-> None, target |-> None, raised |-> FALSE,
     message |-> "No symbols found"]

\* lines 145-155
GotoRun ==
    /\ panel = None
    /\ \E has_listener \in BOOLEAN :
          IF ~has_listener THEN UNCHANGED <<panel, jump>>
          ELSE IF Len(self_yaml_symbols) = 0
               THEN /\ jump' = NoSymbolsFound
                    /\ UNCHANGED panel
               ELSE /\ panel' = [names |-> [k \in 1..Len(self_yaml_symbols) |->
                                              self_yaml_symbols[k].name],
                                 symbols |-> self_yaml_symbols]
                    /\ UNCHANGED jump
    /\ UNCHANGED <<content, regions, sel, idleVars, listenerVars, clipboard>>

\* lines 157-167, called with the 0-based index of the row picked, or -1;
\* line 160 indexes the listener's list as it is now, and raises IndexError
\* past its end
OnSymbolSelected ==
    /\ panel # None
    /\ panel' = None
    /\ \E index \in (-1)..(Len(panel.names) - 1) :
          IF index = -1
          THEN UNCHANGED <<sel, pending_selection, jump>>
          ELSE IF index + 1 > Len(self_yaml_symbols)
               THEN /\ jump' = [shown |-> panel.symbols[index + 1],
                                target |-> None, raised |-> TRUE,
                                message |-> ""]
                    /\ UNCHANGED <<sel, pending_selection>>
               ELSE LET region == self_yaml_symbols[index + 1].region
                        target == Region(End(region) + 1, End(region) + 1)
                    IN  /\ sel' = <<target>>
                        /\ pending_selection' = TRUE
                        /\ jump' = [shown |-> panel.symbols[index + 1],
                                    target |-> target, raised |-> FALSE,
                                    message |-> ""]
    /\ UNCHANGED <<content, regions, idleVars, loading, change_count,
                   pending_modified, timers, lpc, self_yaml_symbols,
                   current_yaml_symbol, status, indexed, fired, clipboard>>

NextGoto == NextListener \/ GotoRun \/ OnSymbolSelected

SpecGoto == InitListener /\ [][NextGoto]_vars

----------------------------------------------------------------------------
(* YamlNavCopyCurrentCommand, src/yaml_nav.py lines 170-201.               *)

\* re.sub(r"^(.+?)\.", "", name): the shortest prefix of at least one
\* character and the dot after it are removed
trim_language_tag(name) ==
    LET dots == {j \in 2..Len(name) : name[j] = "."}
    IN  IF dots = {} THEN name
        ELSE SubSeq(name, (CHOOSE j \in dots : \A i \in dots : j <= i) + 1,
                    Len(name))

\* the tag trimmed in every file when the setting is on
should_trim_any_file(setting, locale) == setting

\* line 187
should_trim(setting, locale) == setting /\ locale

\* lines 182-194, in a view with or without a listener, with the setting
\* trim_language_tag_on_copy_from_locales and the outcome of _is_locale_file
CopyRun(has_listener, setting, locale) ==
    /\ IF has_listener /\ current_yaml_symbol # None
       THEN LET name == IF should_trim(setting, locale)
                        THEN trim_language_tag(current_yaml_symbol.name)
                        ELSE current_yaml_symbol.name
            IN  /\ clipboard' = [text |-> name]
                /\ status' = set_status(status,
                                 name \o <<" - copied to clipboard!">>)
       ELSE /\ UNCHANGED clipboard
            /\ status' = set_status(status,
                             <<"nothing selected - can't copy!">>)
    /\ UNCHANGED <<content, regions, sel, idleVars, loading, change_count,
                   pending_modified, pending_selection, timers, lpc,
                   self_yaml_symbols, current_yaml_symbol, indexed, fired,
                   panel, jump>>

Copy ==
    \E has_listener \in BOOLEAN, setting \in BOOLEAN, locale \in BOOLEAN :
        CopyRun(has_listener, setting, locale)

NextCopy == NextListener \/ Copy

SpecCopy == InitListener /\ [][NextCopy]_vars

----------------------------------------------------------------------------
(* Properties of get_yaml_symbols.                                         *)

tok_indent(k) == indent_level_of(content, regions[k])
tok_key(k) == key_of(content, regions[k])

SortedTokens ==
    \A k \in 1..(Len(regions) - 1) : Begin(regions[k]) < Begin(regions[k + 1])

names == [k \in 1..Len(symbols) |-> symbols[k].name]

\* C1: for tokens sorted by ascending begin, the output has one symbol per
\* token consumed, the k-th symbol carries the k-th token's region, and the
\* returned list is as long as the token list.
C1_OneSymbolPerToken ==
    SortedTokens =>
        /\ Len(symbols) = n
        /\ \A k \in 1..Len(symbols) : symbols[k].region = regions[k]
        /\ (pc = "returned" => Len(symbols) = Len(regions))

C1_Witness ==
    /\ pc = "returned"
    /\ SortedTokens
    /\ Len(regions) = MaxLines
    /\ Len(symbols) = MaxLines
    /\ \E k \in 2..Len(regions) : tok_indent(k) = 0

\* the latest earlier token with a strictly smaller indent, or 0
ref_parent(k) ==
    LET earlier == {j \in 1..(k - 1) : tok_indent(j) < tok_indent(k)}
    IN  IF earlier = {} THEN 0
        ELSE CHOOSE j \in earlier : \A i \in earlier : i <= j

RECURSIVE ref_name(_)
ref_name(k) ==
    IF ref_parent(k) = 0 THEN tok_key(k)
    ELSE ref_name(ref_parent(k)) \o <<".">> \o tok_key(k)

\* C2: the name emitted for token k is the reference path (the key alone
\* when no earlier token has a strictly smaller indent, otherwise the name
\* of the latest such token, a dot, and the key), and the name of the token
\* just processed is the dot-join of the keys of the frames on the stack.
C2_NameIsReferencePath ==
    /\ \A k \in 1..Len(symbols) : symbols[k].name = ref_name(k)
    /\ (Len(symbols) > 0 /\ Len(symbols) = n) =>
           symbols[n].name =
               join(<<".">>, [k \in 1..Len(current_path) |-> current_path[k].key])

C2_Witness ==
    /\ pc = "returned"
    /\ Len(symbols) = 3
    /\ ref_parent(2) = 1
    /\ ref_parent(3) = 2
    /\ Len(current_path) = 3
    /\ symbols[3].name = tok_key(1) \o <<".">> \o tok_key(2) \o <<".">> \o tok_key(3)

DropLast(s, k) == SubSeq(s, 1, Len(s) - k)

Dots(s) == Cardinality({j \in 1..Len(s) : s[j] = "."})

Line(indent, key) == [indent |-> indent, key |-> key]

SiblingExamples ==
    {[lines |-> <<Line(0, <<"a">>), Line(2, <<"b">>), Line(2, <<"c">>)>>,
      pad |-> p] : p \in Pads}

IsDocument(d) == content = render(d) /\ regions = find_by_selector(d)

\* C3: a token with the same indent as the token right before it gets the
\* previous name with only the last component replaced by its own key, at
\* the same depth; (a,0),(b,2),(c,2) yields a, a.b, a.c.
C3_EqualIndentReplaces ==
    /\ \A k \in 2..Len(symbols) :
          tok_indent(k) = tok_indent(k - 1) =>
              /\ symbols[k].name =
                     DropLast(symbols[k - 1].name, Len(tok_key(k - 1))) \o tok_key(k)
              /\ Dots(symbols[k].name) = Dots(symbols[k - 1].name)
    /\ (pc = "returned" /\ \E d \in SiblingExamples : IsDocument(d)) =>
           names = << <<"a">>, <<"a", ".", "b">>, <<"a", ".", "c">> >>

C3_Witness ==
    /\ pc = "returned"
    /\ \E d \in SiblingExamples : IsDocument(d)
    /\ tok_indent(3) = tok_indent(2)
    /\ names[3] = <<"a", ".", "c">>

AtLineStart(region) ==
    Begin(region) = 0 \/ content[Begin(region)] = "\n"

DedentExamples ==
    {[lines |-> <<Line(0, <<"a">>), Line(2, <<"b">>), Line(0, <<"c">>)>>,
      pad |-> p] : p \in Pads}

\* C4: a token that begins at offset 0 or right after a newline has indent
\* 0, processing it leaves a stack of exactly its own frame, and its name
\* is its own trimmed key; (a,0),(b,2),(c,0) yields a, a.b, c.
C4_IndentZeroIsRoot ==
    /\ \A k \in 1..Len(symbols) :
          AtLineStart(regions[k]) =>
              /\ tok_indent(k) = 0
              /\ symbols[k].name = tok_key(k)
              /\ k = n => current_path = <<Level(tok_key(k), 0)>>
    /\ (pc = "returned" /\ \E d \in DedentExamples : IsDocument(d)) =>
           names = << <<"a">>, <<"a", ".", "b">>, <<"c">> >>

C4_Witness ==
    /\ n = 3
    /\ tok_indent(1) < tok_indent(2)
    /\ Len(symbols[2].name) > Len(tok_key(2))
    /\ AtLineStart(regions[3])
    /\ Len(current_path) = 1
    /\ symbols[3].name = tok_key(3)

----------------------------------------------------------------------------
(* Properties of get_selected_yaml_symbol.                                 *)

caret(s) == Region(s.b, s.b)

\* the list indices of the symbols a probe region intersects
Hits(region) ==
    {k \in 1..Len(symbols) : intersects(region, symbols[k].region)}

Greatest(S) == CHOOSE k \in S : \A j \in S : j <= k

OneCursor == pc = "resolved" /\ Len(symbols) > 0 /\ Len(sel) = 1

\* C5: with a non-empty list and one selection whose caret intersects some
\* symbol, the symbol returned is the intersecting one with the greatest
\* list index.
C5_CaretPicksDeepest ==
    (OneCursor /\ Hits(caret(sel[1])) # {}) =>
        selected = symbols[Greatest(Hits(caret(sel[1])))]

C5_Witness ==
    /\ OneCursor
    /\ Hits(caret(sel[1])) = {1, 2}
    /\ symbols[1] # symbols[2]
    /\ selected = symbols[2]
    /\ Hits(sel[1]) = {1, 2}

\* C6: with a non-empty list and one selection whose caret intersects no
\* symbol but whose range intersects some, the symbol returned is the one
\* intersecting the range with the greatest list index.
C6_RangePicksDeepest ==
    (OneCursor /\ Hits(caret(sel[1])) = {} /\ Hits(sel[1]) # {}) =>
        selected = symbols[Greatest(Hits(sel[1]))]

\* the lines of the selection that intersect some symbol, by position in
\* view.lines(sel)
HitLines(s) ==
    {k \in 1..Len(lines(content, s)) : Hits(lines(content, s)[k]) # {}}

FirstHitLine(s) ==
    lines(content, s)[CHOOSE k \in HitLines(s) : \A j \in HitLines(s) : k <= j]

\* C7: with a non-empty list and one selection, when neither the caret nor
\* the range intersects a symbol, the symbol returned is, for the first
\* line of the selection that intersects some symbol, the intersecting one
\* with the greatest list index; none is returned only if no line does.
C7_LinePicksDeepest ==
    (OneCursor /\ Hits(caret(sel[1])) = {} /\ Hits(sel[1]) = {}) =>
        IF HitLines(sel[1]) # {}
        THEN selected = symbols[Greatest(Hits(FirstHitLine(sel[1])))]
        ELSE selected = None

\* C8: with more than one selection the value returned is none, whatever
\* the symbol list and whether or not a selection intersects a symbol.
C8_MultipleCursorsGiveNone ==
    (pc = "resolved" /\ Len(sel) > 1) => selected = None

C8_Witness ==
    /\ pc = "resolved"
    /\ Len(sel) = 2
    /\ Len(symbols) > 0
    /\ Hits(caret(sel[1])) # {}
    /\ Hits(caret(sel[2])) # {}
    /\ selected = None

\* C9: with an empty symbol list the function returns none at its first
\* guard, before any probe region is tried, for every cursor state.
C9_EmptyListGivesNone ==
    (pc \in {"probing", "resolved"} /\ Len(symbols) = 0) =>
        /\ pc = "resolved"
        /\ probe = 0
        /\ selected = None

C9_Witness ==
    /\ pc = "resolved"
    /\ Len(symbols) = 0
    /\ Len(content) > 0
    /\ Len(sel) = 1
    /\ Len(iter_regions(content, sel)) >= 3
    /\ selected = None

\* C10: zero tokens give an empty symbol list; a cursor state without
\* selections gives none; and a single selection that reaches past the end
\* of the document and intersects no symbol region gives none.
C10_DegenerateInputsGiveNothing ==
    /\ (pc # "scan" /\ Len(regions) = 0) => symbols = <<>>
    /\ (pc = "resolved" /\ Len(sel) = 0) => selected = None
    /\ (pc = "resolved" /\ Len(sel) = 1 /\ End(sel[1]) > Len(content)
            /\ Hits(caret(sel[1])) = {} /\ Hits(sel[1]) = {}) =>
           selected = None

C10_Witness ==
    /\ OneCursor
    /\ Begin(sel[1]) > Len(content)
    /\ probe = Len(iter_regions(content, sel))
    /\ yaml_symbols = Len(symbols)
    /\ selected = None

----------------------------------------------------------------------------
(* Further properties of get_yaml_symbols.                                 *)

\* C11: on tokens in any order, overlapping or sharing a begin offset, the
\* loop never gets stuck before it returns, it emits one symbol per token
\* consumed with that token's region, and every name is built from the
\* stack as usual (the reference path over the indents as computed).
C11_MalformedTokensStillScanned ==
    /\ pc = "returned" \/ ENABLED NextBuild
    /\ Len(symbols) = n
    /\ \A k \in 1..Len(symbols) :
          /\ symbols[k].region = regions[k]
          /\ symbols[k].name = ref_name(k)
    /\ n > 0 => symbols[n].name = symbol_name(current_path)
    /\ pc = "returned" => Len(symbols) = Len(regions)

C11_Witness ==
    /\ pc = "returned"
    /\ Len(symbols) = 2
    /\ Begin(regions[2]) < Begin(regions[1])
    /\ End(regions[2]) > Begin(regions[1])
    /\ tok_indent(2) < tok_indent(1)

\* the indents of consecutive tokens processed so far never decrease
NonDecreasingIndents ==
    \A k \in 1..(n - 1) : tok_indent(k) <= tok_indent(k + 1)

\* the indents of consecutive tokens processed so far strictly increase
IncreasingIndents ==
    \A k \in 1..(n - 1) : tok_indent(k) < tok_indent(k + 1)

GrowingPath ==
    /\ Len(current_path) = n
    /\ \A k \in 2..Len(symbols) :
          symbols[k].name = symbols[k - 1].name \o <<".">> \o tok_key(k)

\* C14 as claimed: while the indent never decreases from one token to the
\* next, nothing is popped and every name extends the previous name.
C14_NonDecreasingNeverPops == NonDecreasingIndents => GrowingPath

\* C14 as amended: while the indent strictly increases from one token to
\* the next, nothing is popped: the stack holds one frame per token and
\* every name is the previous name extended by one component.
C14_IncreasingNeverPops == IncreasingIndents => GrowingPath

C14_Witness ==
    /\ pc = "returned"
    /\ n = 3
    /\ IncreasingIndents
    /\ Len(current_path) = 3
    /\ Dots(symbols[3].name) = 2

\* the frames of a stack that a token at `indent` leaves in place
Kept(path, indent) == SelectSeq(path, LAMBDA f : f.indent < indent)

StrictlyIncreasingStack ==
    \A k \in 1..(Len(current_path) - 1) :
        current_path[k].indent < current_path[k + 1].indent

\* C20: after each token the stack is non-empty, its top frame is that
\* token's {key, indent} and the indents strictly increase from bottom to
\* top; and each step removes exactly the frames whose indent is greater
\* than or equal to the new token's indent.
C20_StackInvariant ==
    /\ [](n > 0 =>
            /\ Len(current_path) > 0
            /\ current_path[Len(current_path)] = Level(tok_key(n), tok_indent(n))
            /\ StrictlyIncreasingStack)
    /\ [][n' = n + 1 =>
            current_path' =
                Append(Kept(current_path, indent_level_of(content, regions[n + 1])),
                       Level(key_of(content, regions[n + 1]),
                             indent_level_of(content, regions[n + 1])))]_vars

C20_Witness ==
    /\ n = 3
    /\ Len(current_path) = 1
    /\ tok_indent(1) < tok_indent(2)
    /\ tok_indent(3) <= tok_indent(1)

\* C13: any two calls on the same text and tokens, whatever was called in
\* between, return the same list; every call starts from an empty stack
\* and an empty output list.
C13_SameInputSameOutput ==
    /\ \A r1 \in results : \A r2 \in results :
          (r1.content = r2.content /\ r1.regions = r2.regions) =>
              r1.symbols = r2.symbols
    /\ (pc = "loop" /\ n = 0) => (current_path = <<>> /\ symbols = <<>>)

C13_Witness ==
    /\ calls = 3
    /\ Cardinality(results) = 2
    /\ \A r \in results : Len(r.symbols) > 0
    /\ \E r \in results :
          /\ r.content = content
          /\ r.content[1] = " "
          /\ r.symbols = symbols
    /\ pc = "returned"
    /\ Len(current_path) = 1

----------------------------------------------------------------------------
(* Properties of YamlNavListener.                                          *)

within(symbol, text) ==
    0 <= Begin(symbol.region) /\ End(symbol.region) <= Len(text)

Settled == lpc = "idle"

\* C12 as stated: the region of the symbol the listener got from
\* get_selected_yaml_symbol lies within [0, length] of the view's current
\* text, also between an edit and its rescan.
C12_RegionWithinCurrentText ==
    (Settled /\ current_yaml_symbol # None) =>
        within(current_yaml_symbol, content)

\* C12: the region of the symbol the listener got from
\* get_selected_yaml_symbol lies within [0, length] of the text its symbol
\* list was built from, which after an edit and before the rescan is not
\* the view's current text.
C12_RegionWithinIndexedText ==
    (Settled /\ current_yaml_symbol # None) =>
        within(current_yaml_symbol, indexed)

C12_Witness ==
    /\ Settled
    /\ current_yaml_symbol # None
    /\ indexed # content
    /\ ~pending_selection
    /\ Len(timers) > 0
    /\ End(current_yaml_symbol.region) > Len(content)
    /\ End(current_yaml_symbol.region) <= Len(indexed)

\* a scheduled callback runs in this step
TimerStep == Len(timers') < Len(timers)

\* C15: a scheduled callback that fires with a captured change count other
\* than the view's change count leaves yaml_symbols, current_yaml_symbol
\* and the status field as they were and does not go on to update them; one
\* that fires with the view's change count replaces yaml_symbols by the
\* symbols of the view's text.
C15_StaleCallbackDiscarded ==
    [][TimerStep =>
          IF Head(timers) # change_count
          THEN UNCHANGED <<self_yaml_symbols, indexed, current_yaml_symbol,
                           status, lpc>>
          ELSE /\ self_yaml_symbols' = get_yaml_symbols(content, regions)
               /\ indexed' = content
               /\ lpc' = "updating"]_vars

C15_Witness ==
    /\ fired # None
    /\ fired.captured # fired.count
    /\ fired.count = change_count
    /\ Settled
    /\ indexed # content
    /\ self_yaml_symbols # get_yaml_symbols(content, regions)
    /\ current_yaml_symbol # None

\* every queued event is handled, every scheduled callback has fired and no
\* callback is under way
Quiescent ==
    /\ pending_modified = 0
    /\ ~pending_selection
    /\ Len(timers) = 0
    /\ Settled

Consistent ==
    /\ self_yaml_symbols = get_yaml_symbols(content, regions)
    /\ current_yaml_symbol =
          get_selected_yaml_symbol(self_yaml_symbols, content, sel)

\* C16: after an edit, whatever edits, selection changes and activations
\* follow, a state is reached where every event is handled and every
\* scheduled callback has fired, and in every such state yaml_symbols is
\* get_yaml_symbols of the view's text and current_yaml_symbol is
\* get_selected_yaml_symbol of that list and the selection.
C16_EventuallyConsistent ==
    /\ [](change_count >= 1 => <>Quiescent)
    /\ []((change_count >= 1 /\ Quiescent) => Consistent)

C16_Witness ==
    /\ change_count >= 2
    /\ Quiescent
    /\ Consistent
    /\ fired # None
    /\ fired.captured = change_count
    /\ current_yaml_symbol # None

\* C19: whenever no callback of the listener is under way,
\* current_yaml_symbol is none or an element of the listener's yaml_symbols,
\* and the status field shows a path, that symbol's name, exactly when
\* current_yaml_symbol is not none.
C19_CurrentSymbolInList ==
    Settled =>
        /\ \/ current_yaml_symbol = None
           \/ \E k \in 1..Len(self_yaml_symbols) :
                 self_yaml_symbols[k] = current_yaml_symbol
        /\ (status # None) <=> (current_yaml_symbol # None)
        /\ current_yaml_symbol # None =>
              status = [text |-> current_yaml_symbol.name]

C19_Witness ==
    /\ Settled
    /\ fired # None
    /\ fired.captured = fired.count
    /\ Len(self_yaml_symbols) = 2
    /\ current_yaml_symbol = self_yaml_symbols[1]
    /\ status = [text |-> <<"a", "b">>]
    /\ indexed = content

----------------------------------------------------------------------------
(* Properties of the commands.                                             *)

Picked == jump # None /\ jump.shown # None

\* C17: after the quick panel reports a row, the selection was set to one
\* empty caret one past the end of the region of the symbol shown in that
\* row when the panel was opened, and nothing was raised.
C17_GotoTargetsShownSymbol ==
    Picked =>
        /\ ~jump.raised
        /\ jump.target = Region(End(jump.shown.region) + 1,
                                End(jump.shown.region) + 1)

\* the name after its first dot
AfterFirstDot(name) ==
    LET j == CHOOSE j \in 1..Len(name) :
                 name[j] = "." /\ \A i \in 1..(j - 1) : name[i] # "."
    IN  SubSeq(name, j + 1, Len(name))

HasDot(name) == \E j \in 1..Len(name) : name[j] = "."

\* C18: a copy with a listener that has a current symbol sets the clipboard
\* to the symbol's name, without its first dot-separated component when the
\* setting is on and the file is a locale file and the name has a dot, and
\* shows the copied message; a copy without listener or current symbol
\* leaves the clipboard alone and shows the nothing-selected message;
\* neither changes yaml_symbols or current_yaml_symbol.
C18_CopyCurrent ==
    [][\A l \in BOOLEAN, t \in BOOLEAN, f \in BOOLEAN :
          CopyRun(l, t, f) =>
             /\ UNCHANGED <<self_yaml_symbols, current_yaml_symbol>>
             /\ IF l /\ current_yaml_symbol # None
                THEN /\ clipboard' =
                           [text |-> IF t /\ f /\ HasDot(current_yaml_symbol.name)
                                     THEN AfterFirstDot(current_yaml_symbol.name)
                                     ELSE current_yaml_symbol.name]
                     /\ status' = [text |-> clipboard'.text
                                       \o <<" - copied to clipboard!">>]
                ELSE /\ clipboard' = clipboard
                     /\ status' =
                           [text |-> <<"nothing selected - can't copy!">>]]_vars

C18_Witness ==
    /\ current_yaml_symbol # None
    /\ current_yaml_symbol.name = <<"a", "b", ".", "c", "d">>
    /\ clipboard = [text |-> <<"c", "d">>]
    /\ status = [text |-> <<"c", "d", " - copied to clipboard!">>]

============================================================================
